---- MODULE Spec2Model ----
(***************************************************************************)
(* Model of the FA2 NAPLPS contract (js/tezos/fa2-naplps.mligo).           *)
(*                                                                         *)
(* The contract storage is one record (ledger, operators, token_metadata,  *)
(* next_token_id).  Each entrypoint is a pure function of its parameter,   *)
(* the storage and the sender; `failwith` aborts the call, and the chain   *)
(* then keeps the storage the call started from.                           *)
(***************************************************************************)
EXTENDS Integers, Sequences, FiniteSets, TLC

(* ------------------------------ bounds --------------------------------- *)

\* Mint is only taken while next_token_id < MaxMint.
MaxMint == 2
\* Amounts named in transfer triples range over 0..MaxAmount.
MaxAmount == 1
\* A Transfer call holds at most MaxTxs triples and empty groups together.
MaxTxs == 2
\* An Update_operators call holds at most MaxUpdates directives.
MaxUpdates == 2
\* A Balance_of call holds at most MaxRequests requests.
MaxRequests == 2
\* Update_operators is only taken while it leaves at most MaxOperators entries.
MaxOperators == 1

Addresses == {"alice", "bob"}
TokenIds == 0 .. (MaxMint - 1)
Amounts == 0 .. MaxAmount
TokenInfos == {[naplps |-> "ab"]}
Callbacks == {"cb1", "cb2"}

(* ------------------------- options and big maps ------------------------ *)

None == <<>>
Some(v) == <<v>>

Big_map_empty == <<>>
Big_map_mem(k, m) == k \in DOMAIN m
Big_map_find_opt(k, m) == IF k \in DOMAIN m THEN Some(m[k]) ELSE None
Big_map_remove(k, m) == [x \in (DOMAIN m) \ {k} |-> m[x]]
\* Big_map.update k (Some v) m
Big_map_update(k, v, m) == [x \in (DOMAIN m) \cup {k} |-> IF x = k THEN v ELSE m[x]]

unit == "unit"
abs(i) == IF i < 0 THEN -i ELSE i

(* ------------------------------ results -------------------------------- *)

NoError == "none"
FA2_NOT_OPERATOR == "FA2_NOT_OPERATOR"
FA2_INSUFFICIENT_BALANCE == "FA2_INSUFFICIENT_BALANCE"
FA2_NOT_OWNER == "FA2_NOT_OWNER"

\* A function that returned v.
Ok(v) == [err |-> NoError, v |-> v]
\* failwith e, raised while the value being built was v; v is lost with the call.
Fail(e, v) == [err |-> e, v |-> v]

(* ------------------------------ transfer ------------------------------- *)

nat_or_zero(opt) == IF opt = None THEN 0 ELSE opt[1]

\* debit that leaves the entry in place when the source is emptied.
debit_keeps_emptied(from_key, new_from, ledger) ==
    IF new_from = 0
    THEN ledger
    ELSE Big_map_update(from_key, new_from, ledger)

\* The let-bound values of do_transfer are operator arguments here, so that each
\* is computed once: debit is the ledger after the debit of the source, credit
\* the ledger after the credit of the destination.
debit(from_key, new_from, ledger) ==
    IF new_from = 0
    THEN Big_map_remove(from_key, ledger)
    ELSE Big_map_update(from_key, new_from, ledger)

credit(to_key, to_bal, amount, ledger) == Big_map_update(to_key, to_bal + amount, ledger)

credit_to(to_key, amount, ledger) ==
    credit(to_key, nat_or_zero(Big_map_find_opt(to_key, ledger)), amount, ledger)

\* do_transfer_from without the balance check: abs hides the negative difference.
do_transfer_from_unchecked(s, from_key, from_bal, tx) ==
    Ok([s EXCEPT !.ledger =
           credit_to(<<tx.to_, tx.token_id>>, tx.amount,
                     debit(from_key, abs(from_bal - tx.amount), s.ledger))])

\* do_transfer from the balance check on.
do_transfer_from(s, from_key, from_bal, tx) ==
    IF from_bal < tx.amount
    THEN Fail(FA2_INSUFFICIENT_BALANCE, s)
    ELSE Ok([s EXCEPT !.ledger =
                credit_to(<<tx.to_, tx.token_id>>, tx.amount,
                          debit(from_key, abs(from_bal - tx.amount), s.ledger))])

\* do_transfer that looks the operator entry up with owner and operator swapped.
do_transfer_swapped_key(s, from_, tx, sender) ==
    IF sender # from_ /\ ~Big_map_mem(<<sender, <<from_, tx.token_id>>>>, s.operators)
    THEN Fail(FA2_NOT_OPERATOR, s)
    ELSE do_transfer_from(s, <<from_, tx.token_id>>,
                          nat_or_zero(Big_map_find_opt(<<from_, tx.token_id>>, s.ledger)), tx)

\* do_transfer that uses up the operator entry it was authorized by.
do_transfer_consumes_operator(s, from_, tx, sender) ==
    IF sender # from_ /\ ~Big_map_mem(<<from_, <<sender, tx.token_id>>>>, s.operators)
    THEN Fail(FA2_NOT_OPERATOR, s)
    ELSE do_transfer_from([s EXCEPT !.operators =
                              Big_map_remove(<<from_, <<sender, tx.token_id>>>>, @)],
                          <<from_, tx.token_id>>,
                          nat_or_zero(Big_map_find_opt(<<from_, tx.token_id>>, s.ledger)), tx)

\* do_transfer that checks the balance before the operator.
do_transfer_balance_first(s, from_, tx, sender) ==
    IF nat_or_zero(Big_map_find_opt(<<from_, tx.token_id>>, s.ledger)) < tx.amount
    THEN Fail(FA2_INSUFFICIENT_BALANCE, s)
    ELSE IF sender # from_ /\ ~Big_map_mem(<<from_, <<sender, tx.token_id>>>>, s.operators)
         THEN Fail(FA2_NOT_OPERATOR, s)
         ELSE do_transfer_from(s, <<from_, tx.token_id>>,
                               nat_or_zero(Big_map_find_opt(<<from_, tx.token_id>>, s.ledger)),
                               tx)

\* do_transfer that accepts an operator entry of the owner for any token-id.
do_transfer_any_token(s, from_, tx, sender) ==
    IF sender # from_ /\ \A t \in TokenIds : ~Big_map_mem(<<from_, <<sender, t>>>>, s.operators)
    THEN Fail(FA2_NOT_OPERATOR, s)
    ELSE do_transfer_from(s, <<from_, tx.token_id>>,
                          nat_or_zero(Big_map_find_opt(<<from_, tx.token_id>>, s.ledger)), tx)

do_transfer(s, from_, tx, sender) ==
    IF sender # from_ /\ ~Big_map_mem(<<from_, <<sender, tx.token_id>>>>, s.operators)
    THEN Fail(FA2_NOT_OPERATOR, s)
    ELSE do_transfer_from(s, <<from_, tx.token_id>>,
                          nat_or_zero(Big_map_find_opt(<<from_, tx.token_id>>, s.ledger)), tx)

\* The accumulator of a fold whose step may fail: the value built so far and
\* the number n of list elements applied; a failed step ends the fold.
FoldStart(v) == [err |-> NoError, v |-> v, n |-> 0]
FoldStep(acc, r) ==
    [err |-> r.err, v |-> r.v, n |-> IF r.err = NoError THEN acc.n + 1 ELSE acc.n]

RECURSIVE fold_txs(_, _, _, _)
fold_txs(acc, from_, txs, sender) ==
    IF acc.err # NoError \/ txs = <<>>
    THEN acc
    ELSE fold_txs(FoldStep(acc, do_transfer(acc.v, from_, Head(txs), sender)),
                  from_, Tail(txs), sender)

\* acc.v is the storage; the result's n counts the triples applied so far in the call.
apply_txs(acc, param, sender) == fold_txs(acc, param.from_, param.txs, sender)

\* fold_groups that applies the groups from the last to the first.
RECURSIVE fold_groups_last_first(_, _, _)
fold_groups_last_first(acc, params, sender) ==
    IF acc.err # NoError \/ params = <<>>
    THEN acc
    ELSE fold_groups_last_first(apply_txs(acc, params[Len(params)], sender),
                                SubSeq(params, 1, Len(params) - 1), sender)

RECURSIVE fold_groups(_, _, _)
fold_groups(acc, params, sender) ==
    IF acc.err # NoError \/ params = <<>>
    THEN acc
    ELSE fold_groups(apply_txs(acc, Head(params), sender), Tail(params), sender)

\* What an entrypoint returns: the operations and the new storage (ops, s),
\* or the error it failed with; n as in the fold.
Return(r, ops) == [err |-> r.err, ops |-> ops, s |-> r.v, n |-> r.n]

transfer(params, s, sender) == Return(fold_groups(FoldStart(s), params, sender), <<>>)

(* ----------------------------- balance_of ------------------------------ *)

\* balance_of_response that answers 0 without reading the ledger.
balance_of_response_zero(req, ledger) == [request |-> req, balance |-> 0]

balance_of_response(req, ledger) ==
    [request |-> req,
     balance |-> nat_or_zero(Big_map_find_opt(<<req.owner, req.token_id>>, ledger))]

\* Tezos.transaction arg amount destination
Tezos_transaction(arg, amount, destination) ==
    [kind |-> "transaction", arg |-> arg, amount |-> amount, destination |-> destination]

balance_of(param, s) ==
    LET ledger    == s.ledger
        responses == [i \in 1 .. Len(param.requests) |->
                        balance_of_response(param.requests[i], ledger)]
        op        == Tezos_transaction(responses, 0, param.callback)
    IN  [err |-> NoError, ops |-> <<op>>, s |-> s, n |-> 0]

(* --------------------------- update_operators -------------------------- *)

\* apply_operator_update whose Remove branch does not check the owner.
apply_operator_update_open_remove(ops, param, sender) ==
    IF param.kind = "Add_operator"
    THEN IF sender # param.op.owner
         THEN Fail(FA2_NOT_OWNER, ops)
         ELSE Ok(Big_map_update(<<param.op.owner, <<param.op.operator, param.op.token_id>>>>,
                                unit, ops))
    ELSE Ok(Big_map_remove(<<param.op.owner, <<param.op.operator, param.op.token_id>>>>,
                           ops))

\* apply_operator_update whose Remove branch leaves the entry in place.
apply_operator_update_keeps_on_remove(ops, param, sender) ==
    IF sender # param.op.owner
    THEN Fail(FA2_NOT_OWNER, ops)
    ELSE IF param.kind = "Add_operator"
         THEN Ok(Big_map_update(<<param.op.owner, <<param.op.operator, param.op.token_id>>>>,
                                unit, ops))
         ELSE Ok(ops)

\* apply_operator_update whose Add branch does not check the owner.
apply_operator_update_open_add(ops, param, sender) ==
    IF param.kind = "Add_operator"
    THEN Ok(Big_map_update(<<param.op.owner, <<param.op.operator, param.op.token_id>>>>,
                           unit, ops))
    ELSE IF sender # param.op.owner
         THEN Fail(FA2_NOT_OWNER, ops)
         ELSE Ok(Big_map_remove(<<param.op.owner, <<param.op.operator, param.op.token_id>>>>,
                                ops))

apply_operator_update(ops, param, sender) ==
    IF param.kind = "Add_operator"
    THEN IF sender # param.op.owner
         THEN Fail(FA2_NOT_OWNER, ops)
         ELSE Ok(Big_map_update(<<param.op.owner, <<param.op.operator, param.op.token_id>>>>,
                                unit, ops))
    ELSE IF sender # param.op.owner
         THEN Fail(FA2_NOT_OWNER, ops)
         ELSE Ok(Big_map_remove(<<param.op.owner, <<param.op.operator, param.op.token_id>>>>,
                                ops))

\* fold_updates that applies the directives from the last to the first.
RECURSIVE fold_updates_last_first(_, _, _)
fold_updates_last_first(acc, params, sender) ==
    IF acc.err # NoError \/ params = <<>>
    THEN acc
    ELSE fold_updates_last_first(
             FoldStep(acc, apply_operator_update(acc.v, params[Len(params)], sender)),
             SubSeq(params, 1, Len(params) - 1), sender)

RECURSIVE fold_updates(_, _, _)
fold_updates(acc, params, sender) ==
    IF acc.err # NoError \/ params = <<>>
    THEN acc
    ELSE fold_updates(FoldStep(acc, apply_operator_update(acc.v, Head(params), sender)),
                      Tail(params), sender)

with_operators(s, r) == [r EXCEPT !.v = [s EXCEPT !.operators = r.v]]

update_operators(params, s, sender) ==
    Return(with_operators(s, fold_updates(FoldStart(s.operators), params, sender)), <<>>)

(* -------------------------------- mint --------------------------------- *)

\* mint that writes the advanced counter into the metadata record.
mint_meta_id_off(param, s) ==
    LET token_id       == s.next_token_id
        ledger         == Big_map_update(<<param.to_, token_id>>, 1, s.ledger)
        meta           == [token_id |-> token_id + 1, token_info |-> param.metadata]
        token_metadata == Big_map_update(token_id, meta, s.token_metadata)
    IN  [err |-> NoError, ops |-> <<>>,
         s |-> [s EXCEPT !.ledger = ledger,
                         !.token_metadata = token_metadata,
                         !.next_token_id = token_id + 1],
         n |-> 0]

\* mint that advances the counter by 2.
mint_counter_skips(param, s) ==
    LET token_id       == s.next_token_id
        ledger         == Big_map_update(<<param.to_, token_id>>, 1, s.ledger)
        meta           == [token_id |-> token_id, token_info |-> param.metadata]
        token_metadata == Big_map_update(token_id, meta, s.token_metadata)
    IN  [err |-> NoError, ops |-> <<>>,
         s |-> [s EXCEPT !.ledger = ledger,
                         !.token_metadata = token_metadata,
                         !.next_token_id = token_id + 2],
         n |-> 0]

\* mint that stores the new metadata entry in an empty map.
mint_meta_reset(param, s) ==
    LET token_id       == s.next_token_id
        ledger         == Big_map_update(<<param.to_, token_id>>, 1, s.ledger)
        meta           == [token_id |-> token_id, token_info |-> param.metadata]
        token_metadata == Big_map_update(token_id, meta, Big_map_empty)
    IN  [err |-> NoError, ops |-> <<>>,
         s |-> [s EXCEPT !.ledger = ledger,
                         !.token_metadata = token_metadata,
                         !.next_token_id = token_id + 1],
         n |-> 0]

mint(param, s) ==
    LET token_id       == s.next_token_id
        ledger         == Big_map_update(<<param.to_, token_id>>, 1, s.ledger)
        meta           == [token_id |-> token_id, token_info |-> param.metadata]
        token_metadata == Big_map_update(token_id, meta, s.token_metadata)
    IN  [err |-> NoError, ops |-> <<>>,
         s |-> [s EXCEPT !.ledger = ledger,
                         !.token_metadata = token_metadata,
                         !.next_token_id = token_id + 1],
         n |-> 0]

(* -------------------------------- main --------------------------------- *)

\* main that lets only one address mint.
main_admin_mint(param, s, sender) ==
    CASE param.ep = "Transfer"         -> transfer(param.arg, s, sender)
      [] param.ep = "Balance_of"       -> balance_of(param.arg, s)
      [] param.ep = "Update_operators" -> update_operators(param.arg, s, sender)
      [] param.ep = "Mint"             -> IF sender = "alice"
                                          THEN mint(param.arg, s)
                                          ELSE [err |-> FA2_NOT_OWNER, ops |-> <<>>,
                                                s |-> s, n |-> 0]

main(param, s, sender) ==
    CASE param.ep = "Transfer"         -> transfer(param.arg, s, sender)
      [] param.ep = "Balance_of"       -> balance_of(param.arg, s)
      [] param.ep = "Update_operators" -> update_operators(param.arg, s, sender)
      [] param.ep = "Mint"             -> mint(param.arg, s)

\* Commit that keeps what a failed call had written.
Commit_partial(r, s) == [r EXCEPT !.ops = <<>>]

\* One call as the chain runs it: the storage and the operations main returns
\* are kept when the call ends normally, and dropped when it fails.
Commit(r, s) == IF r.err = NoError THEN r ELSE [r EXCEPT !.ops = <<>>, !.s = s]

Exec(param, s, sender) == Commit(main(param, s, sender), s)

(* ------------------------------- inputs -------------------------------- *)

SeqsUpTo(S, n) == UNION {[1 .. k -> S] : k \in 0 .. n}

Triples == [to_ : Addresses, token_id : TokenIds, amount : Amounts]

\* The lists of groups that hold at most t triples and empty groups together.
RECURSIVE GroupSeqs(_)
GroupSeqs(t) ==
    IF t < 0
    THEN {}
    ELSE {<<>>} \cup
         UNION {{<<grp>> \o rest :
                    grp \in [from_ : Addresses, txs : [1 .. k -> Triples]],
                    rest \in GroupSeqs(t - (IF k = 0 THEN 1 ELSE k))} : k \in 0 .. t}

TransferParams == GroupSeqs(MaxTxs)

Requests == [owner : Addresses, token_id : TokenIds]
BalanceOfParams == [requests : SeqsUpTo(Requests, MaxRequests), callback : Callbacks]

UpdateOperator == [owner : Addresses, operator : Addresses, token_id : TokenIds]
UpdateOperatorParam == [kind : {"Add_operator", "Remove_operator"}, op : UpdateOperator]
UpdateOperatorsParams == SeqsUpTo(UpdateOperatorParam, MaxUpdates)

MintParams == [to_ : Addresses, metadata : TokenInfos]

(* -------------------------------- state -------------------------------- *)

\* storage: the contract's storage.  last: the entrypoint of the latest call,
\* its error (NoError when it ended normally) and the number n of list elements
\* (transfer triples, operator directives) it applied before it ended.
\* reader: the off-chain reader (js/tezos/tezos.js, readLatestNaplps): where it
\* is (pc), the nextId it parsed from its first read, whether it has issued
\* its second read (keyFetched) and what it returned (result).
VARIABLES storage, last, reader

vars == <<storage, last, reader>>

\* What readLatestNaplps ends with: null, a string (its character codes), or
\* the error thrown when the fetch of the key is not ok.
null == [kind |-> "null", text |-> <<>>]
String(text) == [kind |-> "string", text |-> text]
KeyFetchFailed == [kind |-> "Bigmap key fetch failed", text |-> <<>>]
\* The number that is not a number.
NaN == -1

\* (Pair (Pair {} {}) (Pair {} 0))
Init ==
    /\ storage = [ledger         |-> Big_map_empty,
                  operators      |-> Big_map_empty,
                  token_metadata |-> Big_map_empty,
                  next_token_id  |-> 0]
    /\ last = [ep |-> "origination", err |-> NoError, n |-> 0]
    /\ reader = [pc |-> "idle", nextId |-> 0, keyFetched |-> FALSE, result |-> null]

TransferCall(params) == [ep |-> "Transfer", arg |-> params]
BalanceOfCall(param) == [ep |-> "Balance_of", arg |-> param]
UpdateOperatorsCall(params) == [ep |-> "Update_operators", arg |-> params]
MintCall(param) == [ep |-> "Mint", arg |-> param]

Record(ep, r) == [ep |-> ep, err |-> r.err, n |-> r.n]

Transfer ==
    \E sender \in Addresses, params \in TransferParams :
        \E r \in {Exec(TransferCall(params), storage, sender)} :
            /\ storage' = r.s
            /\ last' = Record("Transfer", r)
            /\ reader' = reader

Balance_of ==
    \E sender \in Addresses, param \in BalanceOfParams :
        \E r \in {Exec(BalanceOfCall(param), storage, sender)} :
            /\ storage' = r.s
            /\ last' = Record("Balance_of", r)
            /\ reader' = reader

Update_operators ==
    \E sender \in Addresses, params \in UpdateOperatorsParams :
        \E r \in {Exec(UpdateOperatorsCall(params), storage, sender)} :
            /\ Cardinality(DOMAIN r.s.operators) <= MaxOperators
            /\ storage' = r.s
            /\ last' = Record("Update_operators", r)
            /\ reader' = reader

Mint ==
    \E sender \in Addresses, param \in MintParams :
        /\ storage.next_token_id < MaxMint
        /\ \E r \in {Exec(MintCall(param), storage, sender)} :
              /\ storage' = r.s
              /\ last' = Record("Mint", r)
              /\ reader' = reader

Next == Transfer \/ Balance_of \/ Update_operators \/ Mint

Spec == Init /\ [][Next]_vars

(* ------------------------- the off-chain reader ------------------------ *)

\* A Transfer or Update_operators call committed while the reader runs holds at
\* most MaxReaderItems triples or directives, a Balance_of call as many requests.
MaxReaderItems == 1

\* Payloads minted while the reader runs: one with a naplps key, one without.
ReaderTokenInfos == TokenInfos \cup {<<>>}

Entrypoints == {"Transfer", "Balance_of", "Update_operators", "Mint"}

\* The arguments of entrypoint ep sent while the reader runs.
ReaderArgs(ep) ==
    CASE ep = "Transfer"         -> GroupSeqs(MaxReaderItems)
      [] ep = "Balance_of"       -> [requests : SeqsUpTo(Requests, MaxReaderItems),
                                     callback : Callbacks]
      [] ep = "Update_operators" -> SeqsUpTo(UpdateOperatorParam, MaxReaderItems)
      [] ep = "Mint"             -> [to_ : Addresses, metadata : ReaderTokenInfos]

\* One call of any entrypoint commits; the reader does not move.
ContractCall ==
    \E sender \in Addresses, ep \in Entrypoints :
        \E arg \in ReaderArgs(ep) :
            \E r \in {Exec([ep |-> ep, arg |-> arg], storage, sender)} :
                /\ ep = "Mint" => storage.next_token_id < MaxMint
                /\ Cardinality(DOMAIN r.s.operators) <= MaxOperators
                /\ storage' = r.s
                /\ last' = Record(ep, r)
                /\ reader' = reader

\* The storage as the indexer's JSON shows it: a nat is a string of decimal
\* digits, here the sequence of its digits.
RECURSIVE Decimal(_)
Decimal(n) == IF n < 10 THEN <<n>> ELSE Decimal(n \div 10) \o <<n % 10>>

\* parseInt(str, 10) of a string of decimal digits; NaN for the empty string.
RECURSIVE parseDigits(_, _)
parseDigits(acc, str) ==
    IF str = <<>> THEN acc ELSE parseDigits(10 * acc + Head(str), Tail(str))

parseInt(str) == IF str = <<>> THEN NaN ELSE parseDigits(0, str)

\* storage.next_token_id || "0"
or_zero(str) == IF str = <<>> THEN <<0>> ELSE str

\* hexToString: one character code per pair of hex digits.
hexToString(hex) ==
    CASE hex = "ab" -> String(<<171>>)
      [] hex = "cd" -> String(<<205>>)
      [] OTHER      -> String(<<>>)

\* What readLatestNaplps returns for the answer to its second read: the key
\* is not there (the fetch is not ok), or the entry has no naplps, or it has.
latest_naplps(entry) ==
    IF entry = None
    THEN KeyFetchFailed
    ELSE IF "naplps" \notin DOMAIN entry[1].token_info
         THEN null
         ELSE hexToString(entry[1].token_info.naplps)

\* nextId as parsed, and where the reader goes with it.
after_storage(nextId) ==
    IF nextId = NaN \/ nextId = 0
    THEN [pc |-> "done", nextId |-> 0, keyFetched |-> FALSE, result |-> null]
    ELSE [pc |-> "fetching_key", nextId |-> nextId, keyFetched |-> FALSE, result |-> null]

\* Step 1: fetch the storage to discover next_token_id.
readLatestNaplps_storage ==
    /\ reader.pc \in {"idle", "done"}
    /\ reader' = after_storage(parseInt(or_zero(Decimal(storage.next_token_id))))
    /\ UNCHANGED <<storage, last>>

\* Step 2: fetch the token_metadata entry of key nextId - 1 from the storage
\* as it is now.
readLatestNaplps_key ==
    /\ reader.pc = "fetching_key"
    /\ reader' = [reader EXCEPT
                     !.pc = "done",
                     !.keyFetched = TRUE,
                     !.result = latest_naplps(
                         Big_map_find_opt(reader.nextId - 1, storage.token_metadata))]
    /\ UNCHANGED <<storage, last>>

NextReader == ContractCall \/ readLatestNaplps_storage \/ readLatestNaplps_key

SpecReader == Init /\ [][NextReader]_vars

(* ----------------------------- properties ------------------------------ *)

\* The quantity of token-id t held by all owners together.
RECURSIVE SumOwners(_, _, _)
SumOwners(ledger, t, owners) ==
    IF owners = {}
    THEN 0
    ELSE LET o == CHOOSE x \in owners : TRUE
         IN  nat_or_zero(Big_map_find_opt(<<o, t>>, ledger)) + SumOwners(ledger, t, owners \ {o})

Supply(ledger, t) == SumOwners(ledger, t, {k[1] : k \in DOMAIN ledger})

LedgerTokenIds(ledger) == {k[2] : k \in DOMAIN ledger}

\* C1: every entry present in the ledger has a quantity strictly greater than 0.
C1_LedgerPositive == \A k \in DOMAIN storage.ledger : storage.ledger[k] > 0

\* C2: a Transfer call that succeeds leaves, for every token-id, the sum of the
\* ledger quantities of that token-id over all owners as it was before the call.
C2_TransferConservesSupply ==
    [][(last'.ep = "Transfer" /\ last'.err = NoError) =>
          \A t \in TokenIds \cup LedgerTokenIds(storage.ledger)
                            \cup LedgerTokenIds(storage'.ledger) :
              Supply(storage'.ledger, t) = Supply(storage.ledger, t)]_vars

\* A Transfer call of two triples has succeeded and a token is held by somebody.
C2_Witness ==
    /\ last.ep = "Transfer" /\ last.err = NoError /\ last.n >= 2
    /\ \E k \in DOMAIN storage.ledger : storage.ledger[k] = 1

\* C3: a Transfer call that fails leaves ledger, operators, metadata and
\* next_token_id as they were before the call.
C3_TransferAllOrNothing ==
    [][(last'.ep = "Transfer" /\ last'.err # NoError) => storage' = storage]_vars

\* A Transfer call has failed after an earlier triple of it had been applied.
C3_Witness == last.ep = "Transfer" /\ last.err # NoError /\ last.n >= 1

\* The triples of a Transfer call in the order the call applies them, each with
\* the source owner of its group.
RECURSIVE Flatten(_)
Flatten(params) ==
    IF params = <<>>
    THEN <<>>
    ELSE [i \in 1 .. Len(Head(params).txs) |->
            [from_ |-> Head(params).from_, tx |-> Head(params).txs[i]]]
         \o Flatten(Tail(params))

\* The fold of do_transfer over the first k triples of flat.
RECURSIVE ApplyFirst(_, _, _, _)
ApplyFirst(acc, flat, k, sender) ==
    IF k = 0 \/ acc.err # NoError
    THEN acc
    ELSE ApplyFirst(FoldStep(acc, do_transfer(acc.v, Head(flat).from_, Head(flat).tx, sender)),
                    Tail(flat), k - 1, sender)

\* The storage at the moment the k-th triple is applied, when the call gets there.
Before(s, flat, k, sender) == ApplyFirst(FoldStart(s), flat, k - 1, sender)

Holding(s, item) ==
    nat_or_zero(Big_map_find_opt(<<item.from_, item.tx.token_id>>, s.ledger))

Overdraws(s, item) == item.tx.amount > Holding(s, item)

Authorized(s, item, sender) ==
    \/ sender = item.from_
    \/ Big_map_mem(<<item.from_, <<sender, item.tx.token_id>>>>, s.operators)

Aborts(r, s, err) == r.err = err /\ r.s = s /\ r.ops = <<>>

\* The call with outcome r gets to item with accumulator before, item exceeds its
\* source's holding there, and the call aborts with InsufficientBalance.
C4_OverdrawAt(before, item, r, s) ==
    (before.err = NoError /\ Overdraws(before.v, item))
        => Aborts(r, s, FA2_INSUFFICIENT_BALANCE)

\* C4 as claimed: a Transfer call with a triple whose amount exceeds the source's
\* holding at the moment the triple is applied leaves the store unchanged and
\* reports InsufficientBalance.
C4_OverdrawReportsInsufficientBalance ==
    \A sender \in Addresses, params \in TransferParams :
        \A k \in 1 .. Len(Flatten(params)) :
            C4_OverdrawAt(Before(storage, Flatten(params), k, sender), Flatten(params)[k],
                          Exec(TransferCall(params), storage, sender), storage)

\* As C4_OverdrawAt, with the error the operator check of the triple decides.
C4_AmendedAt(before, item, r, s, sender) ==
    (before.err = NoError /\ Overdraws(before.v, item))
        => Aborts(r, s, IF Authorized(before.v, item, sender)
                        THEN FA2_INSUFFICIENT_BALANCE
                        ELSE FA2_NOT_OPERATOR)

\* C4 as amended: a Transfer call with a triple whose amount exceeds the source's
\* holding at the moment the triple is applied leaves the store unchanged; it
\* reports InsufficientBalance when the caller is the source owner or an operator
\* for the triple, and NotOperator when the caller is neither.
C4_OverdrawAborts ==
    \A sender \in Addresses, params \in TransferParams :
        \A k \in 1 .. Len(Flatten(params)) :
            C4_AmendedAt(Before(storage, Flatten(params), k, sender), Flatten(params)[k],
                         Exec(TransferCall(params), storage, sender), storage, sender)

\* A Transfer call has failed with InsufficientBalance after an earlier triple
\* of it had been applied.
C4_Witness ==
    last.ep = "Transfer" /\ last.err = FA2_INSUFFICIENT_BALANCE /\ last.n >= 1

\* The first triple of flat the caller is neither source owner nor operator for
\* (0 when there is none).  A transfer changes no operator entry.
RECURSIVE FirstUnauthorized(_, _, _, _)
FirstUnauthorized(s, flat, k, sender) ==
    IF k > Len(flat)
    THEN 0
    ELSE IF ~Authorized(s, flat[k], sender)
         THEN k
         ELSE FirstUnauthorized(s, flat, k + 1, sender)

\* The call with outcome r has an unauthorized triple (its k-th) and aborts with
\* NotOperator.
C5_UnauthorizedAt(k, r, s) == k > 0 => Aborts(r, s, FA2_NOT_OPERATOR)

\* C5 as claimed: a Transfer call with a triple for which the caller is neither
\* the source owner nor an operator leaves the store unchanged and reports
\* NotOperator.
C5_UnauthorizedReportsNotOperator ==
    \A sender \in Addresses, params \in TransferParams :
        C5_UnauthorizedAt(FirstUnauthorized(storage, Flatten(params), 1, sender),
                          Exec(TransferCall(params), storage, sender), storage)

\* As C5_UnauthorizedAt, with the error the triples before the k-th decide.
C5_AmendedAt(k, before, r, s) ==
    k > 0 => Aborts(r, s, IF before.err = NoError
                          THEN FA2_NOT_OPERATOR
                          ELSE FA2_INSUFFICIENT_BALANCE)

C5_AmendedFor(k, flat, r, s, sender) == C5_AmendedAt(k, Before(s, flat, k, sender), r, s)

\* C5 as amended: a Transfer call with a triple for which the caller is neither
\* the source owner nor an operator leaves the store unchanged; it reports
\* NotOperator when the triples before the first such triple all apply, and
\* InsufficientBalance when one of them exceeds its source's holding.
C5_UnauthorizedAborts ==
    \A sender \in Addresses, params \in TransferParams :
        C5_AmendedFor(FirstUnauthorized(storage, Flatten(params), 1, sender), Flatten(params),
                      Exec(TransferCall(params), storage, sender), storage, sender)

\* A Transfer call has failed with NotOperator after an earlier triple of it
\* had been applied, while somebody holds a token.
C5_Witness ==
    /\ last.ep = "Transfer" /\ last.err = FA2_NOT_OPERATOR /\ last.n >= 1
    /\ \E k \in DOMAIN storage.ledger : storage.ledger[k] = 1

\* The call with outcome r names a foreign owner and aborts with NotOwner.
C6_ForeignOwnerAt(foreign, r, s) == foreign => Aborts(r, s, FA2_NOT_OWNER)

\* C6: an Update_operators call with a directive, Add or Remove, whose owner is
\* not the caller fails with NotOwner and leaves the storage as it was.
C6_ForeignOwnerAborts ==
    \A sender \in Addresses, params \in UpdateOperatorsParams :
        C6_ForeignOwnerAt(\E i \in 1 .. Len(params) : params[i].op.owner # sender,
                          Exec(UpdateOperatorsCall(params), storage, sender), storage)

\* An Update_operators call has failed with NotOwner after an earlier directive
\* of it had been applied, while an operator entry exists.
C6_Witness ==
    /\ last.ep = "Update_operators" /\ last.err = FA2_NOT_OWNER /\ last.n >= 1
    /\ DOMAIN storage.operators # {}

\* The payloads the claims about Mint range over.
AnyTokenInfos == TokenInfos \cup {[naplps |-> "cd"], <<>>}
AnyMintParams == [to_ : Addresses, metadata : AnyTokenInfos]

\* m2 is m1 with key k mapped to v and every other entry as in m1.
SetsOnly(m1, m2, k, v) ==
    /\ DOMAIN m2 = DOMAIN m1 \cup {k}
    /\ m2[k] = v
    /\ \A x \in DOMAIN m1 \ {k} : m2[x] = m1[x]

\* What C7 says of a mint of param that took s to r.s.
MintedFrom(s, param, r) ==
    /\ r.err = NoError
    /\ SetsOnly(s.ledger, r.s.ledger, <<param.to_, s.next_token_id>>, 1)
    /\ SetsOnly(s.token_metadata, r.s.token_metadata, s.next_token_id,
                [token_id |-> s.next_token_id, token_info |-> param.metadata])
    /\ r.s.next_token_id = s.next_token_id + 1

MintedTwice(s, p1, r1, p2, r2) ==
    /\ MintedFrom(s, p1, r1)
    /\ MintedFrom(r1.s, p2, r2)
    /\ r2.s.ledger[<<p1.to_, s.next_token_id>>] = 1
    /\ r2.s.ledger[<<p2.to_, s.next_token_id + 1>>] = 1
    /\ DOMAIN r2.s.token_metadata = DOMAIN s.token_metadata
                                      \cup {s.next_token_id, s.next_token_id + 1}
    /\ r2.s.next_token_id = s.next_token_id + 2

MintTwice(s, p1, r1, p2, sender) == MintedTwice(s, p1, r1, p2, Exec(MintCall(p2), r1.s, sender))

\* C7: a Mint with next_token_id = n gives the destination quantity 1 of token n,
\* stores the metadata entry n = {token_id = n, payload}, sets next_token_id to
\* n + 1 and changes no other ledger or metadata entry; a second Mint to the same
\* destination then does the same with n + 1.
C7_MintAllocatesNextId ==
    \A sender \in Addresses, p1 \in AnyMintParams, info \in AnyTokenInfos :
        MintTwice(storage, p1, Exec(MintCall(p1), storage, sender),
                  [to_ |-> p1.to_, metadata |-> info], sender)

\* Two consecutive mints to the same destination have happened.
C7_Witness ==
    /\ last.ep = "Mint" /\ storage.next_token_id >= 2
    /\ \E a \in Addresses :
          /\ <<a, storage.next_token_id - 1>> \in DOMAIN storage.ledger
          /\ <<a, storage.next_token_id - 2>> \in DOMAIN storage.ledger
          /\ storage.ledger[<<a, storage.next_token_id - 1>>] = 1
          /\ storage.ledger[<<a, storage.next_token_id - 2>>] = 1

\* C8: in every reachable state Mint succeeds for every caller, destination and
\* payload, and Balance_of succeeds for every caller and every request list.
C8_MintAndBalanceOfNeverFail ==
    /\ \A sender \in Addresses, param \in AnyMintParams :
          Exec(MintCall(param), storage, sender).err = NoError
    /\ \A sender \in Addresses, param \in BalanceOfParams :
          Exec(BalanceOfCall(param), storage, sender).err = NoError

\* A Mint has succeeded in a state where tokens and an operator entry existed.
C8_Witness ==
    /\ last.ep = "Mint" /\ last.err = NoError
    /\ storage.next_token_id >= 2
    /\ DOMAIN storage.operators # {}

\* A successful Mint step adds 1 to next_token_id, any other step keeps it.
C9_CounterStep ==
    IF last'.ep = "Mint" /\ last'.err = NoError
    THEN storage'.next_token_id = storage.next_token_id + 1
    ELSE storage'.next_token_id = storage.next_token_id

\* C9: next_token_id starts at 0; a Mint step adds exactly 1 to it and every
\* other step (Transfer, Balance_of, Update_operators, failed or not) keeps it.
C9_CounterCountsMints == storage.next_token_id = 0 /\ [][C9_CounterStep]_vars

\* After two mints, a Transfer call that failed has left the counter at 2.
C9_Witness ==
    /\ storage.next_token_id >= 2
    /\ last.ep = "Transfer" /\ last.err # NoError

\* C10: a metadata entry, once present, stays present with the same value.
C10_MetadataImmutable ==
    [][\A t \in DOMAIN storage.token_metadata :
          /\ t \in DOMAIN storage'.token_metadata
          /\ storage'.token_metadata[t] = storage.token_metadata[t]]_vars

\* A later Mint has happened while the metadata of token 0 is in place.
C10_Witness ==
    /\ last.ep = "Mint" /\ storage.next_token_id >= 2
    /\ 0 \in DOMAIN storage.token_metadata
    /\ storage.token_metadata[0].token_id = 0

\* C11: the keys of the metadata store are exactly 0 .. next_token_id - 1, the
\* token-ids minted so far, and the record stored under key k has token_id = k.
C11_MetadataKeysAreMinted ==
    /\ DOMAIN storage.token_metadata = 0 .. (storage.next_token_id - 1)
    /\ \A k \in DOMAIN storage.token_metadata : storage.token_metadata[k].token_id = k

\* Two tokens are minted and calls of the other entrypoints have followed.
C11_Witness ==
    /\ storage.next_token_id = 2
    /\ DOMAIN storage.token_metadata = {0, 1}
    /\ last.ep = "Update_operators" /\ last.err = NoError /\ last.n >= 1

\* C12: every token-id in a key of the ledger or of the metadata store is less
\* than next_token_id, whatever token-ids Transfer calls name.
C12_NoUnmintedTokenId ==
    /\ \A k \in DOMAIN storage.ledger : k[2] < storage.next_token_id
    /\ \A k \in DOMAIN storage.token_metadata : k < storage.next_token_id

\* What each entrypoint leaves as it was in one step.
C13_Frame ==
    /\ last'.ep = "Balance_of" => storage' = storage
    /\ last'.ep = "Transfer" =>
          /\ storage'.operators = storage.operators
          /\ storage'.token_metadata = storage.token_metadata
          /\ storage'.next_token_id = storage.next_token_id
    /\ last'.ep = "Update_operators" =>
          /\ storage'.ledger = storage.ledger
          /\ storage'.token_metadata = storage.token_metadata
          /\ storage'.next_token_id = storage.next_token_id
    /\ last'.ep = "Mint" => storage'.operators = storage.operators

\* C13: Balance_of leaves the whole storage unchanged; Transfer changes at most
\* the ledger; Update_operators changes at most the operator store; Mint leaves
\* the operator store unchanged.
C13_EntrypointsKeepTheirFrame == [][C13_Frame]_vars

\* A Transfer call has moved a token while an operator entry is in place.
C13_Witness ==
    /\ last.ep = "Transfer" /\ last.err = NoError /\ last.n = 1
    /\ DOMAIN storage.operators # {}
    /\ \E k \in DOMAIN storage.ledger : storage.ledger[k] = 1

\* The operation op delivers to callback the answers to requests, in their
\* order, each with the quantity the ledger holds (0 when it has no entry).
AnswersRequests(op, requests, callback, ledger) ==
    /\ op.kind = "transaction"
    /\ op.destination = callback
    /\ DOMAIN op.arg = 1 .. Len(requests)
    /\ \A i \in 1 .. Len(requests) :
          /\ op.arg[i].request = requests[i]
          /\ op.arg[i].balance =
                IF <<requests[i].owner, requests[i].token_id>> \in DOMAIN ledger
                THEN ledger[<<requests[i].owner, requests[i].token_id>>]
                ELSE 0

C14_BalanceOfEmits(param, r, s) ==
    /\ Len(r.ops) = 1
    /\ AnswersRequests(r.ops[1], param.requests, param.callback, s.ledger)

\* C14: Balance_of emits exactly one operation, addressed to the callback the
\* caller supplied, whose i-th response pairs the i-th request with the ledger
\* quantity of (owner, token-id), 0 when there is no entry; Transfer,
\* Update_operators and Mint emit no operation.
C14_EmittedOperations ==
    /\ \A sender \in Addresses, param \in BalanceOfParams :
          C14_BalanceOfEmits(param, Exec(BalanceOfCall(param), storage, sender), storage)
    /\ \A sender \in Addresses, params \in TransferParams :
          Exec(TransferCall(params), storage, sender).ops = <<>>
    /\ \A sender \in Addresses, params \in UpdateOperatorsParams :
          Exec(UpdateOperatorsCall(params), storage, sender).ops = <<>>
    /\ \A sender \in Addresses, param \in AnyMintParams :
          Exec(MintCall(param), storage, sender).ops = <<>>

\* A Balance_of call has run on a ledger where one owner holds a token and
\* another has no entry for it.
C14_Witness ==
    /\ last.ep = "Balance_of" /\ last.err = NoError
    /\ \E a \in Addresses, b \in Addresses, t \in TokenIds :
          /\ <<a, t>> \in DOMAIN storage.ledger
          /\ storage.ledger[<<a, t>>] = 1
          /\ <<b, t>> \notin DOMAIN storage.ledger

\* The key of the operator store a directive names.
OperatorKey(op) == <<op.owner, <<op.operator, op.token_id>>>>

OperatorKeys == {OperatorKey(op) : op \in UpdateOperator}

\* The position of the last of the first i directives that names key, 0 when
\* none does.
RECURSIVE LastNaming(_, _, _)
LastNaming(params, key, i) ==
    IF i = 0
    THEN 0
    ELSE IF OperatorKey(params[i].op) = key
         THEN i
         ELSE LastNaming(params, key, i - 1)

\* Whether key is to be present after params ran on the operator store ops,
\* given the position i of the last directive naming it.
PresentAfter(params, key, ops, i) ==
    IF i = 0 THEN key \in DOMAIN ops ELSE params[i].kind = "Add_operator"

C15_LastDirectiveDecides(params, r, s) ==
    r.err = NoError =>
        \A key \in OperatorKeys \cup DOMAIN s.operators \cup DOMAIN r.s.operators :
            key \in DOMAIN r.s.operators
                <=> PresentAfter(params, key, s.operators,
                                 LastNaming(params, key, Len(params)))

\* A directive by its owner that asks for what is already the case: Add of a
\* present triple, Remove of an absent one.
C15_Redundant(d, s) ==
    (d.kind = "Add_operator") <=> (OperatorKey(d.op) \in DOMAIN s.operators)

C15_RedundantIsHarmless(d, r, s) ==
    C15_Redundant(d, s) => (r.err = NoError /\ r.s = s)

\* C15: after a successful Update_operators call a triple is present iff the
\* last directive naming it is Add, or no directive names it and it was present
\* before; Add of a present triple and Remove of an absent triple raise no error
\* and leave the operator store unchanged.
C15_DirectivesApplyInOrder ==
    /\ \A sender \in Addresses, params \in UpdateOperatorsParams :
          C15_LastDirectiveDecides(params,
              Exec(UpdateOperatorsCall(params), storage, sender), storage)
    /\ \A d \in UpdateOperatorParam :
          C15_RedundantIsHarmless(d,
              Exec(UpdateOperatorsCall(<<d>>), storage, d.op.owner), storage)

\* An Update_operators call of two directives has succeeded and left an entry.
C15_Witness ==
    /\ last.ep = "Update_operators" /\ last.err = NoError /\ last.n = 2
    /\ DOMAIN storage.operators # {}

Add_operator(op) == [kind |-> "Add_operator", op |-> op]
Remove_operator(op) == [kind |-> "Remove_operator", op |-> op]

\* Whether op.operator passes the operator check of do_transfer for op.owner's
\* holdings of op.token_id in storage s.
OperatorMay(s, op) ==
    do_transfer(s, op.owner, [to_ |-> op.owner, token_id |-> op.token_id, amount |-> 0],
                op.operator).err # FA2_NOT_OPERATOR

\* The owner adds op in one call and removes it in the next.
RemoveAfter(r, op) ==
    IF r.err = NoError
    THEN Exec(UpdateOperatorsCall(<<Remove_operator(op)>>), r.s, op.owner)
    ELSE r

AddThenRemove(s, op) ==
    RemoveAfter(Exec(UpdateOperatorsCall(<<Add_operator(op)>>), s, op.owner), op)

\* The owner adds and removes op in one call.
AddRemove(s, op) ==
    Exec(UpdateOperatorsCall(<<Add_operator(op), Remove_operator(op)>>), s, op.owner)

C16_RestoredBy(r, s, op) == r.err = NoError /\ OperatorMay(r.s, op) = OperatorMay(s, op)

\* C16 as claimed: for every (owner, operator, token-id) triple, adding the
\* operator and then removing it, both by the owner, leaves whether the operator
\* may transfer the owner's holdings of that token-id as it was before the add.
C16_AddThenRemoveRestores ==
    \A op \in UpdateOperator :
        /\ C16_RestoredBy(AddThenRemove(storage, op), storage, op)
        /\ C16_RestoredBy(AddRemove(storage, op), storage, op)

\* The add and the remove succeed and leave the store without the entry of op
\* and otherwise as it was; the authorization result is the one before the add
\* unless the entry was present and the operator is not the owner.
C16_AmendedFor(r, s, op) ==
    /\ r.err = NoError
    /\ r.s = [s EXCEPT !.operators = Big_map_remove(OperatorKey(op), @)]
    /\ IF OperatorKey(op) \in DOMAIN s.operators /\ op.operator # op.owner
       THEN OperatorMay(s, op) /\ ~OperatorMay(r.s, op)
       ELSE OperatorMay(r.s, op) = OperatorMay(s, op)

\* C16 as amended: adding the operator and then removing it, both by the owner,
\* leaves the triple absent; the authorization result is the one before the add
\* when the triple was absent before the add or the operator is the owner, and
\* turns from allowed to refused when the triple was present before the add and
\* the operator is not the owner.
C16_AddThenRemoveLeavesAbsent ==
    \A op \in UpdateOperator :
        /\ C16_AmendedFor(AddThenRemove(storage, op), storage, op)
        /\ C16_AmendedFor(AddRemove(storage, op), storage, op)

\* An Update_operators call of two directives has succeeded, an operator entry
\* for somebody else than its owner is present, and no other.
C16_Witness ==
    /\ last.ep = "Update_operators" /\ last.err = NoError /\ last.n = 2
    /\ \E op \in UpdateOperator :
          /\ op.operator # op.owner
          /\ DOMAIN storage.operators = {OperatorKey(op)}

\* The directives of params that make the difference between the operator
\* stores before and after the call with outcome r were sent by the owner they
\* name: an Add_operator for an entry that came, a Remove_operator for one
\* that went.
C17_ChangedByOwner(params, r, s, sender) ==
    /\ \A key \in DOMAIN r.s.operators \ DOMAIN s.operators :
          /\ key[1] = sender
          /\ \E i \in 1 .. Len(params) : params[i] = Add_operator(
                 [owner |-> sender, operator |-> key[2][1], token_id |-> key[2][2]])
    /\ \A key \in DOMAIN s.operators \ DOMAIN r.s.operators :
          /\ key[1] = sender
          /\ \E i \in 1 .. Len(params) : params[i] = Remove_operator(
                 [owner |-> sender, operator |-> key[2][1], token_id |-> key[2][2]])

\* C17: an operator entry comes into the store only by an Add_operator directive
\* of a call sent by the entry's owner and leaves it only by a Remove_operator
\* directive of a call sent by that owner; no call of another entrypoint and no
\* call of another sender creates or deletes it.
C17_OperatorEntriesSetByOwner ==
    /\ \A sender \in Addresses, params \in UpdateOperatorsParams :
          C17_ChangedByOwner(params,
              Exec(UpdateOperatorsCall(params), storage, sender), storage, sender)
    /\ \A sender \in Addresses, params \in TransferParams :
          Exec(TransferCall(params), storage, sender).s.operators = storage.operators
    /\ \A sender \in Addresses, param \in BalanceOfParams :
          Exec(BalanceOfCall(param), storage, sender).s.operators = storage.operators
    /\ \A sender \in Addresses, param \in AnyMintParams :
          Exec(MintCall(param), storage, sender).s.operators = storage.operators

\* An Update_operators call naming a foreign owner has failed while an entry
\* of some owner is in the store.
C17_Witness ==
    /\ last.ep = "Update_operators" /\ last.err = FA2_NOT_OWNER /\ last.n = 0
    /\ DOMAIN storage.operators # {}

\* The Transfer call of the one triple tx from from_.
SingleTransfer(from_, tx) == TransferCall(<<[from_ |-> from_, txs |-> <<tx>>]>>)

\* C18: a triple whose destination is its source owner, sent by an authorized
\* caller, with an amount the source holds, leaves the ledger as it was: same
\* keys, same quantities.
C18_SelfTransferIsIdentity ==
    \A sender \in Addresses, from_ \in Addresses, t \in TokenIds, amount \in Amounts :
        ( /\ Authorized(storage, [from_ |-> from_, tx |-> [token_id |-> t]], sender)
          /\ amount <= Holding(storage, [from_ |-> from_, tx |-> [token_id |-> t]]) )
        => /\ Exec(SingleTransfer(from_, [to_ |-> from_, token_id |-> t, amount |-> amount]),
                   storage, sender).err = NoError
           /\ Exec(SingleTransfer(from_, [to_ |-> from_, token_id |-> t, amount |-> amount]),
                   storage, sender).s.ledger = storage.ledger

\* C19: a triple of amount 0 sent by the source owner or an operator for the
\* token-id succeeds whatever the source holds and leaves the ledger as it was.
C19_ZeroAmountIsNoOp ==
    \A sender \in Addresses, from_ \in Addresses, to_ \in Addresses, t \in TokenIds :
        Authorized(storage, [from_ |-> from_, tx |-> [token_id |-> t]], sender)
        => /\ Exec(SingleTransfer(from_, [to_ |-> to_, token_id |-> t, amount |-> 0]),
                   storage, sender).err = NoError
           /\ Exec(SingleTransfer(from_, [to_ |-> to_, token_id |-> t, amount |-> 0]),
                   storage, sender).s.ledger = storage.ledger

\* The triples of flat sent one call each, in order, until one fails.
RECURSIVE OneByOne(_, _, _)
OneByOne(r, flat, sender) ==
    IF r.err # NoError \/ flat = <<>>
    THEN r
    ELSE OneByOne(Exec(SingleTransfer(Head(flat).from_, Head(flat).tx), r.s, sender),
                  Tail(flat), sender)

\* The call with outcome r fails where the one-by-one run q fails, with its
\* error, and otherwise returns the storage q ends with.
C20_SameAs(r, q) == r.err = q.err /\ (r.err = NoError => r.s = q.s)

C20_IsLeftFold(params, s, sender) ==
    C20_SameAs(Exec(TransferCall(params), s, sender),
               OneByOne([err |-> NoError, s |-> s], Flatten(params), sender))

\* b holds token t, a holds none of it and is b's operator for it.
C20_CanPassOn(s, a, b, t) ==
    /\ a # b
    /\ <<b, <<a, t>>>> \in DOMAIN s.operators
    /\ nat_or_zero(Big_map_find_opt(<<b, t>>, s.ledger)) >= 1
    /\ nat_or_zero(Big_map_find_opt(<<a, t>>, s.ledger)) = 0

\* a moves the token from b to a and back in one call; in the opposite order
\* the call fails.
C20_SpendsCredited(s, a, b, t) ==
    /\ Exec(TransferCall(<<[from_ |-> b, txs |-> <<[to_ |-> a, token_id |-> t, amount |-> 1]>>],
                           [from_ |-> a, txs |-> <<[to_ |-> b, token_id |-> t, amount |-> 1]>>]>>),
            s, a).err = NoError
    /\ Exec(TransferCall(<<[from_ |-> a, txs |-> <<[to_ |-> b, token_id |-> t, amount |-> 1]>>],
                           [from_ |-> b, txs |-> <<[to_ |-> a, token_id |-> t, amount |-> 1]>>]>>),
            s, a).err = FA2_INSUFFICIENT_BALANCE

\* C20: a Transfer call applies its groups, and the triples of each group, in
\* list order, each against the ledger the earlier ones left: it fails where
\* sending the triples one call each would first fail, and otherwise returns
\* the storage that run ends with; a triple can spend what an earlier triple
\* of the call credited, and the same triples in the opposite order then fail
\* with InsufficientBalance.
C20_TransferIsLeftFold ==
    /\ \A sender \in Addresses, params \in TransferParams :
          C20_IsLeftFold(params, storage, sender)
    /\ \A a \in Addresses, b \in Addresses, t \in TokenIds :
          C20_CanPassOn(storage, a, b, t) => C20_SpendsCredited(storage, a, b, t)

\* A Transfer call of two triples has succeeded in a state where an operator
\* can take a token from its owner and hand it back.
C20_Witness ==
    /\ last.ep = "Transfer" /\ last.err = NoError /\ last.n = 2
    /\ \E a \in Addresses, b \in Addresses, t \in TokenIds : C20_CanPassOn(storage, a, b, t)

\* The call with outcome r gets to item with accumulator before: an item the
\* caller is not authorized for aborts the call with NotOperator, whatever its
\* source holds; an authorized item that overdraws aborts it with
\* InsufficientBalance.
C21_ChecksAt(before, item, r, s, sender) ==
    before.err = NoError =>
        /\ ~Authorized(before.v, item, sender) => Aborts(r, s, FA2_NOT_OPERATOR)
        /\ (Authorized(before.v, item, sender) /\ Overdraws(before.v, item))
              => Aborts(r, s, FA2_INSUFFICIENT_BALANCE)

\* A call that reports InsufficientBalance after n triples reports it for its
\* next triple, which the caller is authorized for.
C21_InsufficientAt(flat, r, s, sender) ==
    r.err = FA2_INSUFFICIENT_BALANCE =>
        /\ r.n < Len(flat)
        /\ Authorized(Before(s, flat, r.n + 1, sender).v, flat[r.n + 1], sender)
        /\ Overdraws(Before(s, flat, r.n + 1, sender).v, flat[r.n + 1])

C21_ChecksInOrder(flat, r, s, sender) ==
    /\ \A k \in 1 .. Len(flat) :
          C21_ChecksAt(Before(s, flat, k, sender), flat[k], r, s, sender)
    /\ C21_InsufficientAt(flat, r, s, sender)

\* C21: for each triple a Transfer call gets to, the operator check comes
\* before the balance check: when the caller is neither the source owner nor an
\* operator for the triple's token-id the call reports NotOperator whether or
\* not the source holds the amount, and a call reports InsufficientBalance only
\* for a triple the caller is authorized for.
C21_OperatorCheckedBeforeBalance ==
    \A sender \in Addresses, params \in TransferParams :
        C21_ChecksInOrder(Flatten(params),
                          Exec(TransferCall(params), storage, sender), storage, sender)

\* A Transfer call has failed on its first triple with NotOperator while both
\* owners hold a token and no operator entry exists.
C21_Witness ==
    /\ last.ep = "Transfer" /\ last.err = FA2_NOT_OPERATOR /\ last.n = 0
    /\ DOMAIN storage.operators = {}
    /\ \A a \in Addresses : \E t \in TokenIds :
          <<a, t>> \in DOMAIN storage.ledger /\ storage.ledger[<<a, t>>] = 1

\* Every triple of a call that succeeded, sent by somebody else than its source
\* owner, has the operator entry (source owner, sender, token-id) in s.
C22_EntriesFor(flat, r, s, sender) ==
    r.err = NoError =>
        \A k \in 1 .. Len(flat) :
            flat[k].from_ # sender
                => <<flat[k].from_, <<sender, flat[k].tx.token_id>>>> \in DOMAIN s.operators

\* A single triple sent by somebody else than its source owner, without the
\* entry (source owner, sender, token-id), is refused whatever other entries
\* the operator store holds.
C22_RefusedWithout(s, sender, from_, tx) ==
    (from_ # sender /\ <<from_, <<sender, tx.token_id>>>> \notin DOMAIN s.operators)
        => Aborts(Exec(SingleTransfer(from_, tx), s, sender), s, FA2_NOT_OPERATOR)

\* C22: a caller who is not the source owner moves the owner's holdings of
\* token-id t only if the entry (owner, caller, t) is in the operator store at
\* that moment; an entry for another token-id or another owner does not
\* authorize the transfer.
C22_OperatorScopedToTokenId ==
    /\ \A sender \in Addresses, params \in TransferParams :
          C22_EntriesFor(Flatten(params),
                         Exec(TransferCall(params), storage, sender), storage, sender)
    /\ \A sender \in Addresses, from_ \in Addresses, tx \in Triples :
          C22_RefusedWithout(storage, sender, from_, tx)

\* A Transfer call has been refused while its caller is the owner's operator
\* for the other token-id and the owner holds both tokens.
C22_Witness ==
    /\ last.ep = "Transfer" /\ last.err = FA2_NOT_OPERATOR
    /\ \E a \in Addresses, b \in Addresses :
          /\ a # b
          /\ DOMAIN storage.operators = {<<a, <<b, 1>>>>}
          /\ <<a, 0>> \in DOMAIN storage.ledger /\ storage.ledger[<<a, 0>>] = 1
          /\ <<a, 1>> \in DOMAIN storage.ledger /\ storage.ledger[<<a, 1>>] = 1

\* C23: for every token-id t < next_token_id the ledger quantities of t over
\* all owners sum to 1, and for every token-id t >= next_token_id they sum to 0.
C23_OneOfEachMintedToken ==
    \A t \in TokenIds \cup LedgerTokenIds(storage.ledger) :
        Supply(storage.ledger, t) = IF t < storage.next_token_id THEN 1 ELSE 0

\* Both tokens are minted, a Transfer call of two triples has succeeded and the
\* tokens are with different owners.
C23_Witness ==
    /\ storage.next_token_id = 2
    /\ last.ep = "Transfer" /\ last.err = NoError /\ last.n = 2
    /\ \E a \in Addresses, b \in Addresses :
          /\ a # b
          /\ <<a, 0>> \in DOMAIN storage.ledger /\ storage.ledger[<<a, 0>>] = 1
          /\ <<b, 1>> \in DOMAIN storage.ledger /\ storage.ledger[<<b, 1>>] = 1

\* C24: when the first read of readLatestNaplps sees next_token_id = n > 0, the
\* metadata key n - 1 is in the contract then and ever after, whatever calls
\* commit before the second read, so the second read finds it; when it sees 0
\* the reader returns null and issues no second read.
C24_ReaderFindsLatestKey ==
    /\ (reader.pc # "idle" /\ reader.nextId > 0)
          => (reader.nextId - 1) \in DOMAIN storage.token_metadata
    /\ (reader.pc = "done" /\ reader.nextId = 0)
          => (reader.result = null /\ ~reader.keyFetched)
    /\ reader.result # KeyFetchFailed

\* The reader has seen next_token_id = 1 and a Mint has committed before its
\* second read.
C24_Witness ==
    /\ reader.pc = "fetching_key" /\ reader.nextId = 1
    /\ storage.next_token_id = 2 /\ last.ep = "Mint"

====
